---- MODULE Spec2Model ----
(***************************************************************************)
(* SnoopR.py: sighting normalization, movement-based snooper detection and *)
(* alert placement.                                                        *)
(*                                                                         *)
(* Encoding of Python values:                                              *)
(*   None              <<"None">>                                          *)
(*   int / float n     <<"num", n>>     (Num(n))                           *)
(*   non-numeric text  <<"str", s>>     (Text(s))                          *)
(*   datetime          <<"datetime", t>> (t = the POSIX timestamp)         *)
(*   str               a sequence of one-character strings                 *)
(* Coordinates are integers in units of 0.0001 degree, distances and       *)
(* thresholds integers in units of 0.0001 mile, timestamps whole seconds.  *)
(***************************************************************************)
EXTENDS Integers, Sequences, FiniteSets, TLC

VARIABLES
    san_in,              \* argument s of sanitize_string
    san_out,             \* its return value
    devices,             \* rows of table devices
    device_detections,   \* dict mac -> list of detections, in insertion order
    movement_threshold,  \* args.movement_threshold
    snoopers,            \* list returned by detect_snoopers
    alerts,              \* rows of table alerts
    alert_list,          \* list returned by extract_alerts_from_kismet
    map_center,          \* (center_lat, center_lon) of the folium map
    alert_markers,       \* markers added to alert_marker_cluster, in order
    pc                   \* position in main()

vars == <<san_in, san_out, devices, device_detections, movement_threshold,
          snoopers, alerts, alert_list, map_center, alert_markers, pc>>

\* ------------------------------------------------------------------ bounds
MaxLen == 2
MaxRows == 2
MaxDetections == 3
MaxSightings == 2
MaxAlerts == 2

\* ------------------------------------------------------- Python values
None == <<"None">>
Num(n) == <<"num", n>>
Text(s) == <<"str", s>>
Datetime(t) == <<"datetime", t>>

IsNum(v) == v[1] = "num"
IsDatetime(v) == v[1] = "datetime"

\* Truth value of None, a number or a datetime (`if x`, `x or 0`, `x and ...`).
Truthy(v) ==
    CASE v = None -> FALSE
      [] IsNum(v) -> v[2] # 0
      [] OTHER -> TRUE

Abs(n) == IF n < 0 THEN -n ELSE n

\* --------------------------------------------------------------- strings
Unknown == <<"U", "n", "k", "n", "o", "w", "n">>
unknown == <<"u", "n", "k", "n", "o", "w", "n">>

\* The characters of the list in sanitize_string, in the order of the loop.
StripList == <<"{", "}", "|", "[", "]", "\"", "'", "\\", "<", ">", "%">>

StripChars == {StripList[i] : i \in 1..Len(StripList)}

\* s.replace(c, '') for a one-character c
Replace(s, c) == SelectSeq(s, LAMBDA x : x # c)

RECURSIVE StripFrom(_, _)
StripFrom(s, i) ==
    IF i > Len(StripList) THEN s ELSE StripFrom(Replace(s, StripList[i]), i + 1)

\* Variant whose strip list lacks its last character.
sanitize_string_keeps_percent(s) ==
    IF s = None \/ s = <<>> THEN Unknown
    ELSE SelectSeq(s, LAMBDA x : x \notin (StripChars \ {"%"}))

sanitize_string(s) ==
    IF s = None \/ s = <<>> THEN Unknown ELSE StripFrom(s, 1)

\* str.lower() on the letters the model uses
LowerChar(c) == IF c = "B" THEN "b" ELSE IF c = "U" THEN "u" ELSE c
Lower(s) == [i \in 1..Len(s) |-> LowerChar(s[i])]

\* Input strings of the sanitization check.
Alphabet == StripChars \cup {"a", "B"}

RECURSIVE StringsUpTo(_)
StringsUpTo(n) ==
    IF n = 0 THEN {<<>>}
    ELSE LET shorter == StringsUpTo(n - 1)
         IN  shorter \cup {Append(s, c) : s \in shorter, c \in Alphabet}

SanitizeInputs == {None, Unknown} \cup StringsUpTo(MaxLen)

Idle == <<"idle">>

InitSanitize ==
    /\ san_in \in SanitizeInputs
    /\ san_out = Idle
    /\ devices = <<>>
    /\ device_detections = <<>>
    /\ movement_threshold = 0
    /\ snoopers = <<>>
    /\ alerts = <<>>
    /\ alert_list = <<>>
    /\ map_center = None
    /\ alert_markers = <<>>
    /\ pc = "sanitize"

Sanitize ==
    /\ pc = "sanitize"
    /\ san_out' = sanitize_string(san_in)
    /\ pc' = "sanitized"
    /\ UNCHANGED <<san_in, devices, device_detections, movement_threshold,
                   snoopers, alerts, alert_list, map_center, alert_markers>>

SpecSanitize == InitSanitize /\ [][Sanitize]_vars

\* C9 as amended: the result holds none of the stripped characters; for a
\* non-empty input it is the input with exactly those characters removed, in
\* order, so it is empty exactly when every character of the input is one of
\* them; None and the empty string give "Unknown".
C9_SanitizeStripsOnly ==
    pc = "sanitized" =>
        /\ \A i \in 1..Len(san_out) : san_out[i] \notin StripChars
        /\ (san_in = None \/ san_in = <<>>) => san_out = Unknown
        /\ (san_in # None /\ san_in # <<>>) =>
              /\ san_out = SelectSeq(san_in, LAMBDA x : x \notin StripChars)
              /\ (san_out = <<>>) <=> (\A i \in 1..Len(san_in) : san_in[i] \in StripChars)

\* A non-empty input made only of stripped characters has been sanitized.
C9_Witness ==
    /\ pc = "sanitized"
    /\ san_in # None /\ Len(san_in) = 2
    /\ \A i \in 1..Len(san_in) : san_in[i] \in StripChars
    /\ san_out = <<>>

\* C9 as stated: no stripped character in the result, a non-empty input never
\* gives the empty string, and "Unknown" comes only from a falsy input (an
\* input that itself reads "Unknown" once stripped is left aside).
C9_Original ==
    pc = "sanitized" =>
        /\ \A i \in 1..Len(san_out) : san_out[i] \notin StripChars
        /\ (san_in # None /\ san_in # <<>>) => san_out # <<>>
        /\ (san_out = Unknown) =>
              \/ san_in = None \/ san_in = <<>>
              \/ SelectSeq(san_in, LAMBDA x : x \notin StripChars) = Unknown


\* ------------------------------------------------- coordinate validity
\* float(v): a number converts, None raises TypeError, text that is no
\* number raises ValueError.
Float(v) ==
    CASE v = None -> [ok |-> FALSE, err |-> "TypeError", val |-> 0]
      [] IsNum(v) -> [ok |-> TRUE, err |-> "", val |-> v[2]]
      [] OTHER -> [ok |-> FALSE, err |-> "ValueError", val |-> 0]

\* Variant without the (0, 0) test.
is_valid_lat_lon_accepts_origin(lat, lon) ==
    /\ Float(lat).ok /\ Float(lon).ok
    /\ -90 * 10000 <= Float(lat).val /\ Float(lat).val <= 90 * 10000
    /\ -180 * 10000 <= Float(lon).val /\ Float(lon).val <= 180 * 10000

is_valid_lat_lon(lat, lon) ==
    /\ Float(lat).ok /\ Float(lon).ok      \* else the except branch: False
    /\ -90 * 10000 <= Float(lat).val /\ Float(lat).val <= 90 * 10000
    /\ -180 * 10000 <= Float(lon).val /\ Float(lon).val <= 180 * 10000
    /\ ~(Float(lat).val = 0 /\ Float(lon).val = 0)

\* ------------------------------------------------------ sequence helpers
RemoveAt(s, k) == [i \in 1..(Len(s) - 1) |-> IF i < k THEN s[i] ELSE s[i + 1]]

\* sorted(s, key=K): stable, ascending.
SortedBy(s, K(_)) ==
    LET n == Len(s)
        rank(i) == Cardinality({j \in 1..n :
                       \/ K(s[j]) < K(s[i])
                       \/ (K(s[j]) = K(s[i]) /\ j < i)})
    IN  [r \in 1..n |-> s[CHOOSE i \in 1..n : rank(i) = r - 1]]

\* ---------------------------------------------------------- JSON blobs
\* A blob column is NULL (None), bytes that do not decode to JSON (BadBlob),
\* or the JSON object it decodes to (Json(d)).
BadBlob == <<"bad">>
Json(d) == <<"json", d>>

\* json.loads of a blob known not to be None
Loads(blob) ==
    IF blob = BadBlob THEN [ok |-> FALSE, dict |-> None]
    ELSE [ok |-> TRUE, dict |-> blob[2]]

\* -------------------------------------------- extract_device_detections
\* SELECT ... WHERE min_lat IS NOT NULL AND min_lon IS NOT NULL
\* ORDER BY last_time ASC  (NULL sorts first; ties keep the row order)
SqlTimeKey(row) == IF row.last_time = None THEN -1 ELSE row.last_time[2]

SelectDevices(rows) ==
    SortedBy(SelectSeq(rows, LAMBDA r : r.min_lat # None /\ r.min_lon # None),
             SqlTimeKey)

\* device_dict of one row: {} for a NULL blob and for a blob that fails to
\* decode (the except branch), else the decoded object. {} has no commonname.
EmptyDeviceDict == [commonname |-> None]

DeviceDict(row) ==
    IF row.device = None THEN EmptyDeviceDict
    ELSE IF Loads(row.device).ok THEN Loads(row.device).dict
    ELSE EmptyDeviceDict

\* device_dict.get('kismet.device.base.commonname', 'Unknown')
GetName(d) == IF d.commonname = None THEN Unknown ELSE d.commonname

NormalMac(devmac) ==
    IF devmac = None \/ devmac = <<>> THEN unknown
    ELSE Lower(sanitize_string(devmac))

\* The detection dict of one row that passed the coordinate test.
Detection(row) ==
    [mac |-> NormalMac(row.devmac),
     name |-> sanitize_string(GetName(DeviceDict(row))),
     lat |-> Float(row.min_lat).val,
     lon |-> Float(row.min_lon).val,
     last_time |-> IF Truthy(row.last_time) THEN row.last_time ELSE None]

\* device_detections[mac].append(detection) on the defaultdict(list)
DictAppend(dd, mac, det) ==
    IF \E e \in 1..Len(dd) : dd[e].mac = mac
    THEN [e \in 1..Len(dd) |->
            IF dd[e].mac = mac
            THEN [mac |-> mac, detections |-> Append(dd[e].detections, det)]
            ELSE dd[e]]
    ELSE Append(dd, [mac |-> mac, detections |-> <<det>>])

\* Variant in which a blob that fails to decode drops the row.
KeepsDeviceIfDecodable(row) ==
    /\ row.device = None \/ Loads(row.device).ok
    /\ is_valid_lat_lon(row.min_lat, row.min_lon)

\* Does the loop body reach the append for this row? (lat_valid and lon_valid
\* are the same call.)
KeepsDevice(row) ==
    is_valid_lat_lon(row.min_lat, row.min_lon)

RECURSIVE ExtractLoop(_, _, _)
ExtractLoop(rows, i, dd) ==
    IF i > Len(rows) THEN dd
    ELSE IF ~KeepsDevice(rows[i]) THEN ExtractLoop(rows, i + 1, dd)
    ELSE ExtractLoop(rows, i + 1,
                     DictAppend(dd, NormalMac(rows[i].devmac), Detection(rows[i])))

extract_device_detections(rows) == ExtractLoop(SelectDevices(rows), 1, <<>>)

\* ------------------------------------------- extract_alerts_from_kismet
\* The location sub-structure: absent, a [lon, lat] geopoint, or lat/lon fields.
NoLocation == [geopoint |-> None, lat |-> None, lon |-> None]
GeoPoint(lon, lat) == [geopoint |-> <<lon, lat>>, lat |-> None, lon |-> None]
LatLonFields(lat, lon) == [geopoint |-> None, lat |-> lat, lon |-> lon]

\* datetime.datetime.fromtimestamp(ts_sec) if ts_sec else None
AlertTime(ts_sec) == IF Truthy(ts_sec) THEN Datetime(ts_sec[2]) ELSE None

\* alert_time.timestamp()
Timestamp(dt) == dt[2]

\* float(v) if v else None; raises when float(v) raises
FloatIfTruthy(v) ==
    IF ~Truthy(v) THEN [ok |-> TRUE, val |-> None]
    ELSE IF Float(v).ok THEN [ok |-> TRUE, val |-> Num(Float(v).val)]
    ELSE [ok |-> FALSE, val |-> None]

\* (lat, lon) as read from the decoded alert object, before float()
RawAlertLat(d) ==
    IF d.location.geopoint # None THEN d.location.geopoint[2] ELSE d.location.lat
RawAlertLon(d) ==
    IF d.location.geopoint # None THEN d.location.geopoint[1] ELSE d.location.lon

\* Is the row left by `continue` in the except branch?
AlertSkipped(row) ==
    /\ row.json # None
    /\ \/ ~Loads(row.json).ok
       \/ ~FloatIfTruthy(RawAlertLat(Loads(row.json).dict)).ok
       \/ ~FloatIfTruthy(RawAlertLon(Loads(row.json).dict)).ok

\* alert_entry of a row that is not skipped
AlertEntry(row) ==
    LET d == IF row.json # None /\ Loads(row.json).ok
             THEN Loads(row.json).dict ELSE [location |-> NoLocation]
    IN  [mac |-> NormalMac(row.devmac),
         lat |-> IF row.json = None THEN None ELSE FloatIfTruthy(RawAlertLat(d)).val,
         lon |-> IF row.json = None THEN None ELSE FloatIfTruthy(RawAlertLon(d)).val,
         time |-> AlertTime(row.ts_sec)]

RECURSIVE AlertLoop(_, _, _)
AlertLoop(rows, i, out) ==
    IF i > Len(rows) THEN out
    ELSE IF AlertSkipped(rows[i]) THEN AlertLoop(rows, i + 1, out)
    ELSE AlertLoop(rows, i + 1, Append(out, AlertEntry(rows[i])))

extract_alerts_from_kismet(rows) == AlertLoop(rows, 1, <<>>)


\* ------------------------------------------------ normalization of rows
\* Rows the tables may hold.
DeviceMacs == {<<"B">>, <<"a">>}
DeviceBlobs == {None, BadBlob, Json([commonname |-> <<"a", "%">>])}
DeviceCoords ==
    { <<Num(40 * 10000), Num(-73 * 10000)>>,        \* a fix
      <<Num(90 * 10000), Num(180 * 10000)>>,        \* the edge of both ranges
      <<Num(0), Num(0)>>,                           \* the "no fix" sentinel
      <<Num(90 * 10000 + 1), Num(-73 * 10000)>>,    \* latitude out of range
      <<Num(40 * 10000), Num(-180 * 10000 - 1)>>,   \* longitude out of range
      <<Text(<<"a">>), Num(-73 * 10000)>>,          \* not a number
      <<None, Num(-73 * 10000)>> }                  \* NULL
DeviceTimes == {Num(0), Num(1)}

DeviceRows ==
    { [devmac |-> m, device |-> b, min_lat |-> c[1], min_lon |-> c[2], last_time |-> t] :
        m \in DeviceMacs, b \in DeviceBlobs, c \in DeviceCoords, t \in DeviceTimes }

AlertLocations ==
    { NoLocation,
      GeoPoint(Num(-74 * 10000), Num(41 * 10000)),      \* valid
      GeoPoint(Num(-74 * 10000), Num(0)),               \* valid, on the equator
      GeoPoint(Num(0), Num(0)),                         \* the sentinel
      GeoPoint(Num(-74 * 10000), Num(91 * 10000)),      \* latitude out of range
      LatLonFields(Num(41 * 10000), Num(-74 * 10000)),  \* valid, as fields
      LatLonFields(Text(<<"a">>), Num(-74 * 10000)) }   \* not a number
AlertBlobs == {None, BadBlob} \cup {Json([location |-> l]) : l \in AlertLocations}
AlertTimes == {None, Num(2)}

AlertRows ==
    { [devmac |-> <<"B">>, json |-> b, ts_sec |-> t] : b \in AlertBlobs, t \in AlertTimes }

InitExtract ==
    /\ san_in = None
    /\ san_out = Idle
    /\ devices = <<>>
    /\ device_detections = <<>>
    /\ movement_threshold = 0
    /\ snoopers = <<>>
    /\ alerts = <<>>
    /\ alert_list = <<>>
    /\ map_center = None
    /\ alert_markers = <<>>
    /\ pc = "rows"

\* The capture adds one row to table devices.
InsertDeviceRow ==
    /\ pc = "rows"
    /\ Len(devices) + Len(alerts) < MaxRows
    /\ \E row \in DeviceRows : devices' = Append(devices, row)
    /\ UNCHANGED <<san_in, san_out, device_detections, movement_threshold, snoopers,
                   alerts, alert_list, map_center, alert_markers, pc>>

\* The capture adds one row to table alerts.
InsertAlertRow ==
    /\ pc = "rows"
    /\ Len(devices) + Len(alerts) < MaxRows
    /\ \E row \in AlertRows : alerts' = Append(alerts, row)
    /\ UNCHANGED <<san_in, san_out, devices, device_detections, movement_threshold,
                   snoopers, alert_list, map_center, alert_markers, pc>>

\* main(): device_detections = extract_device_detections(kismet_file)
ExtractDeviceDetections ==
    /\ pc = "rows"
    /\ device_detections' = extract_device_detections(devices)
    /\ pc' = "devices_extracted"
    /\ UNCHANGED <<san_in, san_out, devices, movement_threshold, snoopers, alerts,
                   alert_list, map_center, alert_markers>>

\* main(): alerts = extract_alerts_from_kismet(kismet_file)
ExtractAlerts ==
    /\ pc \in {"devices_extracted", "detected"}
    /\ alert_list' = extract_alerts_from_kismet(alerts)
    /\ pc' = "alerts_extracted"
    /\ UNCHANGED <<san_in, san_out, devices, device_detections, movement_threshold,
                   snoopers, alerts, map_center, alert_markers>>

NextExtract ==
    \/ InsertDeviceRow
    \/ InsertAlertRow
    \/ ExtractDeviceDetections
    \/ ExtractAlerts

SpecExtract == InitExtract /\ [][NextExtract]_vars

\* All sightings of the dict, flattened in dict order.
RECURSIVE Flatten(_, _)
Flatten(dd, e) ==
    IF e > Len(dd) THEN <<>> ELSE dd[e].detections \o Flatten(dd, e + 1)

\* The validity rule, on a raw column pair.
PairIsAFix(lat, lon) ==
    /\ lat # None /\ lat[1] = "num"
    /\ lon # None /\ lon[1] = "num"
    /\ lat[2] \in (-900000)..900000
    /\ lon[2] \in (-1800000)..1800000
    /\ <<lat[2], lon[2]>> # <<0, 0>>

\* C1: every sighting returned by extract_device_detections lies in
\* [-90, 90] x [-180, 180] and is not (0, 0), and the rows whose pair fails
\* the validity rule contribute nothing: there are exactly as many sightings
\* as rows with a valid pair, each at the coordinates of such a row.
C1_OnlyValidSightings ==
    pc \in {"devices_extracted", "alerts_extracted"} =>
        LET all == Flatten(device_detections, 1)
        IN  /\ \A i \in 1..Len(all) :
                  /\ all[i].lat \in (-900000)..900000
                  /\ all[i].lon \in (-1800000)..1800000
                  /\ ~(all[i].lat = 0 /\ all[i].lon = 0)
                  /\ \E k \in 1..Len(devices) :
                        /\ PairIsAFix(devices[k].min_lat, devices[k].min_lon)
                        /\ devices[k].min_lat = Num(all[i].lat)
                        /\ devices[k].min_lon = Num(all[i].lon)
            /\ Len(all) = Cardinality({k \in 1..Len(devices) :
                              PairIsAFix(devices[k].min_lat, devices[k].min_lon)})

\* A row at (0, 0) was dropped while another row gave a sighting.
C1_Witness ==
    /\ pc = "devices_extracted"
    /\ \E k \in 1..Len(devices) :
          devices[k].min_lat = Num(0) /\ devices[k].min_lon = Num(0)
    /\ Len(Flatten(device_detections, 1)) = 1
    /\ Len(devices) = 2


\* device_detections.get(mac, [])
ListOf(dd, mac) ==
    IF \E e \in 1..Len(dd) : dd[e].mac = mac
    THEN dd[CHOOSE e \in 1..Len(dd) : dd[e].mac = mac].detections
    ELSE <<>>

MacsOf(dd) == {dd[e].mac : e \in 1..Len(dd)}

\* Same sightings per device (the order of the dict keys left aside).
SameTracks(dd1, dd2) ==
    \A mac \in MacsOf(dd1) \cup MacsOf(dd2) : ListOf(dd1, mac) = ListOf(dd2, mac)

\* dd1 is dd2 plus one sighting of the given name at the given place.
OneMoreSighting(dd1, dd2, name, lat, lon) ==
    \E mac \in MacsOf(dd1) :
        /\ \E i \in 1..Len(ListOf(dd1, mac)) :
              /\ ListOf(dd1, mac)[i].name = name
              /\ Num(ListOf(dd1, mac)[i].lat) = lat
              /\ Num(ListOf(dd1, mac)[i].lon) = lon
              /\ RemoveAt(ListOf(dd1, mac), i) = ListOf(dd2, mac)
        /\ \A other \in (MacsOf(dd1) \cup MacsOf(dd2)) \ {mac} :
              ListOf(dd1, other) = ListOf(dd2, other)

\* C8 as amended: an alert row whose blob fails to decode is skipped, and a
\* device row whose blob fails to decode is kept with its attributes
\* defaulted (name "Unknown") when its coordinates are valid and dropped
\* when they are not; in both tables every other row is normalized exactly
\* as it is when the malformed row is absent.
C8_MalformedBlobIsLocal ==
    pc = "alerts_extracted" =>
        /\ \A k \in 1..Len(alerts) :
              alerts[k].json = BadBlob =>
                  /\ alert_list = extract_alerts_from_kismet(RemoveAt(alerts, k))
                  /\ Len(alert_list) < Len(alerts)
        /\ \A k \in 1..Len(devices) :
              devices[k].device = BadBlob =>
                  LET rest == extract_device_detections(RemoveAt(devices, k))
                  IN  IF PairIsAFix(devices[k].min_lat, devices[k].min_lon)
                      THEN OneMoreSighting(device_detections, rest, Unknown,
                                           devices[k].min_lat, devices[k].min_lon)
                      ELSE SameTracks(device_detections, rest)

\* A device row with a malformed blob and a fix gave a sighting named
\* "Unknown" next to the sighting of a well-formed row.
C8_Witness ==
    /\ pc = "alerts_extracted"
    /\ \E k \in 1..Len(devices) :
          /\ devices[k].device = BadBlob
          /\ PairIsAFix(devices[k].min_lat, devices[k].min_lon)
    /\ \E k \in 1..Len(devices) : devices[k].device \notin {BadBlob, None}
    /\ Len(Flatten(device_detections, 1)) = 2

\* An alert row with a malformed blob was skipped and another alert kept.
C8_WitnessAlert ==
    /\ pc = "alerts_extracted"
    /\ \E k \in 1..Len(alerts) : alerts[k].json = BadBlob
    /\ Len(alerts) = 2 /\ Len(alert_list) = 1

\* C8 as stated: a row whose blob fails to decode gives no sighting and no
\* alert, and the rest of the batch is normalized as if it were absent.
C8_Original ==
    pc = "alerts_extracted" =>
        /\ \A k \in 1..Len(alerts) :
              alerts[k].json = BadBlob =>
                  alert_list = extract_alerts_from_kismet(RemoveAt(alerts, k))
        /\ \A k \in 1..Len(devices) :
              devices[k].device = BadBlob =>
                  SameTracks(device_detections,
                             extract_device_detections(RemoveAt(devices, k)))


\* ------------------------------------------------------------ haversine
\* Great-circle distance in units of 0.0001 mile between fixes given in
\* units of 0.0001 degree. With a = sin^2(dlat/2) + cos(lat1) cos(lat2)
\* sin^2(dlon/2) and c = 2 asin(sqrt(a)): on one meridian (dlon = 0) c is
\* exactly |dlat|, and for the separations the threshold is about (well
\* under a degree) c^2 = dlat^2 + cos(lat1) cos(lat2) dlon^2 to the precision
\* kept here. The arc is held in units of 0.00001 degree.

\* 1000 * cos(lat), lat in units of 0.0001 degree, by the rational
\* approximation (32400 - 4 d^2) / (32400 + d^2) on whole degrees d.
CosMilli(lat) ==
    LET d == Abs(lat) \div 10000
    IN  ((32400 - 4 * d * d) * 1000) \div (32400 + d * d)

\* floor of the square root of n, known to be at most hi
ISqrt(n, hi) == CHOOSE r \in 0..hi : r * r <= n /\ n < (r + 1) * (r + 1)

\* miles = 3956 * c, c in radians: 3956 * pi / 180 miles per degree.
MilesPerDegreeMilli == (3956 * 31416) \div 1800

ArcMiles(arc) ==
    (arc \div 10000) * MilesPerDegreeMilli
        + ((arc % 10000) * MilesPerDegreeMilli) \div 10000

haversine(lon1, lat1, lon2, lat2) ==
    LET y == 10 * Abs(lat2 - lat1)
        around == Abs(lon2 - lon1)
        dlon == IF around > 180 * 10000 THEN 360 * 10000 - around ELSE around
        scaled == (((10 * dlon) * (10 * dlon)) * CosMilli(lat1)) \div 1000
        x2 == (scaled * CosMilli(lat2)) \div 1000
    IN  IF dlon = 0 THEN ArcMiles(y)
        ELSE ArcMiles(ISqrt(x2 + y * y, 10 * dlon + y))

\* ------------------------------------------------------ detect_snoopers
\* Variant of the key that orders a sighting without timestamp last.
TimeKeyNullLast(d) == IF Truthy(d.last_time) THEN d.last_time[2] ELSE 9

\* key=lambda x: x['last_time'] or 0
TimeKey(d) == IF Truthy(d.last_time) THEN d.last_time[2] ELSE 0

\* The key as the Python value that sorted() compares.
SortKey(d) == IF Truthy(d.last_time) THEN d.last_time ELSE Num(0)

\* k1 < k2 raises TypeError unless both are numbers or both are datetimes.
CompareRaises(k1, k2) ==
    ~((IsNum(k1) /\ IsNum(k2)) \/ (IsDatetime(k1) /\ IsDatetime(k2)))

\* Does sorted(detections, key=...) raise? It compares the keys of a list of
\* two or more elements.
SortedRaises(detections) ==
    \E i, j \in 1..Len(detections) :
        i # j /\ CompareRaises(SortKey(detections[i]), SortKey(detections[j]))

\* Does the loop over device_detections.items() raise at line 311?
DetectRaises(dd) ==
    \E e \in 1..Len(dd) :
        Len(dd[e].detections) >= 2 /\ SortedRaises(dd[e].detections)

\* The for loop from index i (pairs are detections[i-1], detections[i]; the
\* lists are 1-based here, so i starts at 2). Returns <<>> when the loop ends
\* without a breach, else <<total_distance>> as it stands at the break. The
\* test for None coordinates is never taken: lat and lon are floats.
\* Variant that records the distance of the breaching pair alone.
RECURSIVE WalkBreachDistance(_, _, _, _)
WalkBreachDistance(detections, i, total_distance, threshold) ==
    IF i > Len(detections) THEN <<>>
    ELSE LET distance == haversine(detections[i - 1].lon, detections[i - 1].lat,
                                   detections[i].lon, detections[i].lat)
         IN  IF distance >= threshold THEN <<distance>>
             ELSE WalkBreachDistance(detections, i + 1, total_distance + distance,
                                     threshold)

\* Variant with a time window of one time unit: a pair whose timestamps are
\* further apart than that is walked over without being tested.
RECURSIVE WalkWithinWindow(_, _, _, _)
WalkWithinWindow(detections, i, total_distance, threshold) ==
    IF i > Len(detections) THEN <<>>
    ELSE LET distance == haversine(detections[i - 1].lon, detections[i - 1].lat,
                                   detections[i].lon, detections[i].lat)
             elapsed == TimeKey(detections[i]) - TimeKey(detections[i - 1])
         IN  IF distance >= threshold /\ elapsed <= 1
             THEN <<total_distance + distance>>
             ELSE WalkWithinWindow(detections, i + 1, total_distance + distance,
                                   threshold)

RECURSIVE Walk(_, _, _, _)
Walk(detections, i, total_distance, threshold) ==
    IF i > Len(detections) THEN <<>>
    ELSE LET distance == haversine(detections[i - 1].lon, detections[i - 1].lat,
                                   detections[i].lon, detections[i].lat)
         IN  IF distance >= threshold THEN <<total_distance + distance>>
             ELSE Walk(detections, i + 1, total_distance + distance, threshold)

\* Variant without the break: one finding for every breaching pair.
RECURSIVE WalkNoBreak(_, _, _, _)
WalkNoBreak(detections, i, total_distance, threshold) ==
    IF i > Len(detections) THEN <<>>
    ELSE LET distance == haversine(detections[i - 1].lon, detections[i - 1].lat,
                                   detections[i].lon, detections[i].lat)
         IN  (IF distance >= threshold THEN <<total_distance + distance>> ELSE <<>>)
                 \o WalkNoBreak(detections, i + 1, total_distance + distance, threshold)

SnooperFindingsNoBreak(mac, detections, threshold) ==
    IF Len(detections) < 2 THEN <<>>
    ELSE LET sorted == SortedBy(detections, TimeKey)
             hits == WalkNoBreak(sorted, 2, 0, threshold)
         IN  [h \in 1..Len(hits) |->
                [mac |-> mac, detections |-> sorted, total_distance |-> hits[h]]]

\* Variant without the length test whose loop starts at index 0, so that the
\* first pair is (detections[-1], detections[0]).
SnooperFindingsFromZero(mac, detections, threshold) ==
    LET sorted == SortedBy(detections, TimeKey)
        hit == Walk(<<sorted[Len(sorted)]>> \o sorted, 2, 0, threshold)
    IN  IF hit = <<>> THEN <<>>
        ELSE <<[mac |-> mac, detections |-> sorted, total_distance |-> hit[1]]>>

\* The body of the loop over device_detections.items(): the findings (none
\* or one) that one device adds to snoopers.
SnooperFindings(mac, detections, threshold) ==
    IF Len(detections) < 2 THEN <<>>
    ELSE LET sorted == SortedBy(detections, TimeKey)
             hit == Walk(sorted, 2, 0, threshold)
         IN  IF hit = <<>> THEN <<>>
             ELSE <<[mac |-> mac, detections |-> sorted, total_distance |-> hit[1]]>>

RECURSIVE DetectLoop(_, _, _)
DetectLoop(dd, e, threshold) ==
    IF e > Len(dd) THEN <<>>
    ELSE SnooperFindings(dd[e].mac, dd[e].detections, threshold)
             \o DetectLoop(dd, e + 1, threshold)

detect_snoopers(dd, threshold) == DetectLoop(dd, 1, threshold)

\* --default of --movement-threshold: 0.05 mile
DefaultThreshold == 500

\* ------------------------------------------------- the detection check
\* Sightings of two devices a few metres apart, and the thresholds tried.
TrackMacs == {<<"a">>, <<"b">>}
TrackFixes ==
    { <<40 * 10000, -73 * 10000>>,
      <<40 * 10000 + 5, -73 * 10000>>,
      <<40 * 10000 + 10, -73 * 10000 - 5>> }
TrackTimes == {None, Num(1), Num(3)}
Thresholds ==
    {-1, 0, haversine(-73 * 10000, 40 * 10000, -73 * 10000, 40 * 10000 + 5),
     DefaultThreshold}

Sightings(macs, fixes, times) ==
    { [mac |-> m, name |-> Unknown, lat |-> f[1], lon |-> f[2], last_time |-> t] :
        m \in macs, f \in fixes, t \in times }

InitDetect ==
    /\ san_in = None
    /\ san_out = Idle
    /\ devices = <<>>
    /\ device_detections = <<>>
    /\ movement_threshold \in Thresholds
    /\ snoopers = <<>>
    /\ alerts = <<>>
    /\ alert_list = <<>>
    /\ map_center = None
    /\ alert_markers = <<>>
    /\ pc = "observe"

\* One more sighting in the dict handed to detect_snoopers.
Observe ==
    /\ pc = "observe"
    /\ Len(Flatten(device_detections, 1)) < MaxDetections
    /\ \E d \in Sightings(TrackMacs, TrackFixes, TrackTimes) :
          device_detections' = DictAppend(device_detections, d.mac, d)
    /\ UNCHANGED <<san_in, san_out, devices, movement_threshold, snoopers, alerts,
                   alert_list, map_center, alert_markers, pc>>

\* main(): snoopers = detect_snoopers(device_detections, movement_threshold)
DetectSnoopers ==
    /\ pc \in {"observe", "capture"}
    /\ IF DetectRaises(device_detections)
       THEN pc' = "TypeError" /\ UNCHANGED snoopers
       ELSE /\ snoopers' = detect_snoopers(device_detections, movement_threshold)
            /\ pc' = "detected"
    /\ UNCHANGED <<san_in, san_out, devices, device_detections, movement_threshold,
                   alerts, alert_list, map_center, alert_markers>>

NextDetect == Observe \/ DetectSnoopers

SpecDetect == InitDetect /\ [][NextDetect]_vars

SnooperMacs == {snoopers[i].mac : i \in 1..Len(snoopers)}

\* The distances of the consecutive pairs of a track walked in time order.
PairDistances(detections) ==
    LET sorted == SortedBy(detections, TimeKey)
    IN  [i \in 1..(Len(sorted) - 1) |->
            haversine(sorted[i].lon, sorted[i].lat, sorted[i + 1].lon, sorted[i + 1].lat)]

\* C2 as stated: a device is in the list returned by detect_snoopers if and
\* only if the distance of some consecutive pair of its time-ordered
\* sightings exceeds the threshold; a distance equal to it does not count.
C2_SnooperIffExceeds ==
    pc = "detected" =>
        \A e \in 1..Len(device_detections) :
            (device_detections[e].mac \in SnooperMacs)
                <=> (\E i \in 1..(Len(device_detections[e].detections) - 1) :
                        PairDistances(device_detections[e].detections)[i]
                            > movement_threshold)

\* C3: a device with fewer than two sightings is in no finding, whatever the
\* threshold (zero and negative included) and the other devices' tracks.
C3_SingleSightingNeverSnooper ==
    pc = "detected" =>
        \A e \in 1..Len(device_detections) :
            Len(device_detections[e].detections) < 2
                => device_detections[e].mac \notin SnooperMacs

\* Under a negative threshold one device is found and the device with a
\* single sighting is not.
C3_Witness ==
    /\ pc = "detected"
    /\ movement_threshold < 0
    /\ Len(snoopers) = 1
    /\ \E e \in 1..Len(device_detections) :
          /\ Len(device_detections[e].detections) = 1
          /\ device_detections[e].mac \notin SnooperMacs

\* C4: each device is in at most one finding of the list returned by
\* detect_snoopers, however many consecutive pairs of its track breach the
\* threshold: no pair after the first breaching one adds a finding.
C4_OneFindingPerDevice ==
    pc = "detected" =>
        /\ \A i, j \in 1..Len(snoopers) : snoopers[i].mac = snoopers[j].mac => i = j
        /\ \A i \in 1..Len(snoopers) :
              snoopers[i].mac \in {device_detections[e].mac : e \in 1..Len(device_detections)}

\* A device two of whose consecutive pairs breach a positive threshold is
\* in the list once.
C4_Witness ==
    /\ pc = "detected"
    /\ movement_threshold > 0
    /\ \E e \in 1..Len(device_detections) :
          /\ Cardinality({i \in 1..(Len(device_detections[e].detections) - 1) :
                             PairDistances(device_detections[e].detections)[i]
                                 >= movement_threshold}) >= 2
          /\ Cardinality({i \in 1..Len(snoopers) :
                             snoopers[i].mac = device_detections[e].mac}) = 1

\* ------------------------------------------------ order of evaluation
\* The time of a sighting for ordering, a missing timestamp counting as 0.
NullAsZero(d) == IF d.last_time = None THEN 0 ELSE d.last_time[2]

InTimeOrder(t) ==
    \A i \in 1..(Len(t) - 1) : NullAsZero(t[i]) <= NullAsZero(t[i + 1])

\* t holds every sighting of s, each as often as s does, and nothing else.
SameSightings(t, s) ==
    /\ Len(t) = Len(s)
    /\ \A k \in 1..Len(s) :
          Cardinality({i \in 1..Len(t) : t[i] = s[k]})
              = Cardinality({i \in 1..Len(s) : s[i] = s[k]})

\* Some consecutive pair of t is at least the threshold apart.
Breaches(t, threshold) ==
    \E i \in 1..(Len(t) - 1) :
        haversine(t[i].lon, t[i].lat, t[i + 1].lon, t[i + 1].lat) >= threshold

\* The arrangements of s: s read through a permutation of its indices.
Arrangements(s) ==
    { [i \in 1..Len(s) |-> s[p[i]]] :
        p \in {q \in [1..Len(s) -> 1..Len(s)] :
                  \A i, j \in 1..Len(s) : q[i] = q[j] => i = j} }

\* C11: detect_snoopers never fails on a sighting without timestamp, and it
\* walks each device's sightings in non-decreasing time order whatever order
\* they arrived in, a missing timestamp counting as time 0: the track of
\* every finding is in that order, holds every sighting of the device and
\* nothing else, and has a consecutive pair that reaches the threshold; a
\* device with two or more sightings that is not found has a time-ordered
\* arrangement of its sightings in which no consecutive pair reaches it.
C11_TimeOrderedEvaluation ==
    /\ pc # "TypeError"
    /\ pc = "detected" =>
          /\ \A f \in 1..Len(snoopers) :
                /\ InTimeOrder(snoopers[f].detections)
                /\ SameSightings(snoopers[f].detections,
                                 ListOf(device_detections, snoopers[f].mac))
                /\ Breaches(snoopers[f].detections, movement_threshold)
          /\ \A e \in 1..Len(device_detections) :
                (/\ Len(device_detections[e].detections) >= 2
                 /\ device_detections[e].mac \notin SnooperMacs)
                    => \E t \in Arrangements(device_detections[e].detections) :
                          InTimeOrder(t) /\ ~Breaches(t, movement_threshold)

\* A device whose sightings arrived out of time order, the last of them
\* without timestamp, is found under a positive threshold; its track starts
\* with the sighting without timestamp.
C11_Witness ==
    /\ pc = "detected"
    /\ movement_threshold > 0
    /\ \E f \in 1..Len(snoopers) :
          LET arrived == ListOf(device_detections, snoopers[f].mac)
          IN  /\ Len(arrived) = 3
              /\ arrived[1].last_time = Num(3)
              /\ arrived[2].last_time = Num(1)
              /\ arrived[3].last_time = None
              /\ snoopers[f].detections
                    = <<arrived[3], arrived[2], arrived[1]>>

\* ------------------------------------------------------- no time window
\* The windows tried, in the unit of the timestamps.
TimeWindows == 0..1

\* The pairs of sightings of a track that are farther apart than the
\* threshold.
FarPairs(detections, threshold) ==
    {p \in (1..Len(detections)) \X (1..Len(detections)) :
        /\ p[1] < p[2]
        /\ haversine(detections[p[1]].lon, detections[p[1]].lat,
                     detections[p[2]].lon, detections[p[2]].lat) > threshold}

\* Both sightings have a timestamp and they are more than w apart in time.
ApartInTime(d1, d2, w) ==
    /\ d1.last_time # None
    /\ d2.last_time # None
    /\ Abs(d1.last_time[2] - d2.last_time[2]) > w

\* Every pair of the track that is farther apart than the threshold is more
\* than w apart in time, and there is such a pair.
OnlyOutsideWindow(detections, threshold, w) ==
    /\ FarPairs(detections, threshold) # {}
    /\ \A p \in FarPairs(detections, threshold) :
          ApartInTime(detections[p[1]], detections[p[2]], w)

\* C12: detect_snoopers takes no time window: a device with two or more
\* sightings is classified as a snooper whenever some consecutive pair of
\* its time-ordered sightings is farther apart than the distance threshold,
\* however much time lies between the two sightings.
C12_NoTimeWindow ==
    pc = "detected" =>
        \A e \in 1..Len(device_detections) :
            (\E i \in 1..(Len(device_detections[e].detections) - 1) :
                PairDistances(device_detections[e].detections)[i]
                    > movement_threshold)
                => device_detections[e].mac \in SnooperMacs

\* A device is found under a positive threshold although every pair of its
\* sightings that is farther apart than the threshold is more than each of
\* the windows apart in time.
C12_Witness ==
    /\ pc = "detected"
    /\ movement_threshold > 0
    /\ \E e \in 1..Len(device_detections) :
          /\ device_detections[e].mac \in SnooperMacs
          /\ \A w \in TimeWindows :
                OnlyOutsideWindow(device_detections[e].detections,
                                  movement_threshold, w)

\* C12 as stated, for whichever of the windows suits the device: a device
\* whose only pairs of sightings farther apart than the threshold are more
\* than the window apart in time is not classified as a snooper.
C12_Original ==
    pc = "detected" =>
        \A e \in 1..Len(device_detections) :
            \E w \in TimeWindows :
                OnlyOutsideWindow(device_detections[e].detections,
                                  movement_threshold, w)
                    => device_detections[e].mac \notin SnooperMacs

\* ------------------------------------------------------- total_distance
\* The distance of the k-th consecutive pair of a track as it is stored.
StoredPair(t, k) == haversine(t[k].lon, t[k].lat, t[k + 1].lon, t[k + 1].lat)

\* The first consecutive pair of the stored track whose distance reaches
\* the threshold: the pair at which the walk stops. 0 if there is none.
FirstBreach(t, threshold) ==
    IF \E k \in 1..(Len(t) - 1) : StoredPair(t, k) >= threshold
    THEN CHOOSE k \in 1..(Len(t) - 1) :
            /\ StoredPair(t, k) >= threshold
            /\ \A j \in 1..(k - 1) : StoredPair(t, j) < threshold
    ELSE 0

\* The sum of the distances of the pairs 1..k of the track.
RECURSIVE SumOfPairs(_, _)
SumOfPairs(t, k) == IF k = 0 THEN 0 ELSE SumOfPairs(t, k - 1) + StoredPair(t, k)

\* C13: the total_distance of every finding is the sum of the distances of
\* the consecutive pairs of its time-ordered track from the first sighting up
\* to and including the first breaching pair (the first pair whose distance
\* reaches the threshold); pairs after it are not added. It is never less
\* than the distance of the breaching pair nor less than the threshold.
C13_TotalDistanceUpToBreach ==
    pc = "detected" =>
        \A f \in 1..Len(snoopers) :
            LET t == snoopers[f].detections
                b == FirstBreach(t, movement_threshold)
            IN  /\ b > 0
                /\ snoopers[f].total_distance = SumOfPairs(t, b)
                /\ snoopers[f].total_distance >= StoredPair(t, b)
                /\ snoopers[f].total_distance >= movement_threshold

\* In a track of three sightings the first pair moves without reaching the
\* threshold and the second pair reaches it, so the total is more than the
\* distance of the breaching pair.
C13_Witness ==
    /\ pc = "detected"
    /\ \E f \in 1..Len(snoopers) :
          LET t == snoopers[f].detections
          IN  /\ Len(t) = 3
              /\ FirstBreach(t, movement_threshold) = 2
              /\ StoredPair(t, 1) > 0
              /\ snoopers[f].total_distance > StoredPair(t, 2)

\* The breach is at the first of two pairs and the second pair, which
\* moves as well, is not in the total.
C13_WitnessStopsAtBreach ==
    /\ pc = "detected"
    /\ \E f \in 1..Len(snoopers) :
          LET t == snoopers[f].detections
          IN  /\ Len(t) = 3
              /\ FirstBreach(t, movement_threshold) = 1
              /\ StoredPair(t, 2) > 0
              /\ snoopers[f].total_distance = StoredPair(t, 1)

\* ---------------------------------- visualize_devices_snoopers_and_alerts
\* 0.0005 degree, the "slight offset to avoid overlap"
Offset == 5

\* (-80.56899, -30.08869), the predefined location
DefaultCenter == <<Num(-805690), Num(-300887)>>

\* device_data: the flattened detections with valid coordinates, sorted by
\* last_time or 0
DeviceData(dd) ==
    SortedBy(SelectSeq(Flatten(dd, 1),
                       LAMBDA d : is_valid_lat_lon(Num(d.lat), Num(d.lon))),
             TimeKey)

\* snoopers all of whose detections have valid coordinates
MappedSnoopers(found) ==
    SelectSeq(found, LAMBDA s :
        \A i \in 1..Len(s.detections) :
            is_valid_lat_lon(Num(s.detections[i].lat), Num(s.detections[i].lon)))

Location(d) == <<Num(d.lat), Num(d.lon), d.last_time>>

RECURSIVE SnooperLocations(_, _)
SnooperLocations(found, i) ==
    IF i > Len(found) THEN <<>>
    ELSE [k \in 1..Len(found[i].detections) |-> Location(found[i].detections[k])]
             \o SnooperLocations(found, i + 1)

\* all_locations before it is sorted: (lat, lon, time) of the devices, of the
\* snoopers' detections and of the alerts with valid coordinates
AllLocations(device_data, found, alert_entries) ==
    LET valid == SelectSeq(alert_entries, LAMBDA a : is_valid_lat_lon(a.lat, a.lon))
    IN  [k \in 1..Len(device_data) |-> Location(device_data[k])]
            \o SnooperLocations(found, 1)
            \o [k \in 1..Len(valid) |-> <<valid[k].lat, valid[k].lon, valid[k].time>>]

\* key=lambda x: x[2] or 0 : an int for a detection and for an alert without
\* time, a datetime for an alert with a time
LocationKey(x) == IF Truthy(x[3]) THEN x[3] ELSE Num(0)

\* all_locations.sort(...) compares a datetime with an int: TypeError
SortRaises(all) ==
    \E i, j \in 1..Len(all) :
        IsDatetime(LocationKey(all[i])) /\ IsNum(LocationKey(all[j]))

\* (center_lat, center_lon), for a list whose sort does not raise
Center(all) ==
    IF all = <<>> THEN DefaultCenter
    ELSE LET first == SortedBy(all, LAMBDA x : LocationKey(x)[2])[1]
         IN  <<first[1], first[2]>>

Marker(lat, lon, reference_device) ==
    [lat |-> lat, lon |-> lon, reference |-> reference_device]

\* Variant that takes the first device seen before the alert, not the last.
PlaceAlertAtFirstBefore(alert, device_data, center) ==
    IF is_valid_lat_lon(alert.lat, alert.lon) THEN Marker(alert.lat, alert.lon, None)
    ELSE IF Truthy(alert.time) /\ device_data # <<>>
    THEN LET before == SelectSeq(device_data, LAMBDA d :
                           Truthy(d.last_time) /\ d.last_time[2] <= Timestamp(alert.time))
             ref == IF before # <<>> THEN before[1] ELSE device_data[1]
         IN  Marker(Num(ref.lat + Offset), Num(ref.lon + Offset), ref)
    ELSE Marker(center[1], center[2], None)

\* Variant without the else branch that places at the center.
PlaceAlertNoCenter(alert, device_data, center) ==
    IF is_valid_lat_lon(alert.lat, alert.lon) THEN Marker(alert.lat, alert.lon, None)
    ELSE IF Truthy(alert.time) /\ device_data # <<>>
    THEN LET before == SelectSeq(device_data, LAMBDA d :
                           Truthy(d.last_time) /\ d.last_time[2] <= Timestamp(alert.time))
             ref == IF before # <<>> THEN before[Len(before)] ELSE device_data[1]
         IN  Marker(Num(ref.lat + Offset), Num(ref.lon + Offset), ref)
    ELSE Marker(alert.lat, alert.lon, None)

\* Variant whose fallback to the first device adds no offset.
PlaceAlertFallbackNoOffset(alert, device_data, center) ==
    IF is_valid_lat_lon(alert.lat, alert.lon) THEN Marker(alert.lat, alert.lon, None)
    ELSE IF Truthy(alert.time) /\ device_data # <<>>
    THEN LET before == SelectSeq(device_data, LAMBDA d :
                           Truthy(d.last_time) /\ d.last_time[2] <= Timestamp(alert.time))
             ref == IF before # <<>> THEN before[Len(before)] ELSE device_data[1]
             off == IF before # <<>> THEN Offset ELSE 0
         IN  Marker(Num(ref.lat + off), Num(ref.lon + off), ref)
    ELSE Marker(center[1], center[2], None)

\* The body of the loop over alerts up to the marker's location.
PlaceAlert(alert, device_data, center) ==
    IF is_valid_lat_lon(alert.lat, alert.lon) THEN Marker(alert.lat, alert.lon, None)
    ELSE IF Truthy(alert.time) /\ device_data # <<>>
    THEN LET devices_before_alert == SelectSeq(device_data, LAMBDA d :
                 Truthy(d.last_time) /\ d.last_time[2] <= Timestamp(alert.time))
             ref == IF devices_before_alert # <<>>
                    THEN devices_before_alert[Len(devices_before_alert)]
                    ELSE device_data[1]
         IN  Marker(Num(ref.lat + Offset), Num(ref.lon + Offset), ref)
    ELSE Marker(center[1], center[2], None)

\* --------------------------------------------------------------- main()
\* The sightings of one device on a meridian (a fix and the pole), in the
\* order the query returns them (ORDER BY last_time ASC), and the alert rows.
MainFixes == {<<40 * 10000, -73 * 10000>>, <<90 * 10000, -73 * 10000>>}
MainTimes == {None, Num(1), Num(2), Num(3)}
MainAlertRows ==
    { [devmac |-> <<"B">>, json |-> b, ts_sec |-> t] :
        b \in {None} \cup {Json([location |-> l]) : l \in
                  { GeoPoint(Num(-74 * 10000), Num(41 * 10000)),
                    GeoPoint(Num(-74 * 10000), Num(0)),
                    GeoPoint(Num(-74 * 10000), Num(91 * 10000)) }},
        t \in AlertTimes }
    \cup {[devmac |-> <<"B">>, json |-> BadBlob, ts_sec |-> Num(2)]}

Init ==
    /\ san_in = None
    /\ san_out = Idle
    /\ devices = <<>>
    /\ device_detections = <<>>
    /\ movement_threshold = DefaultThreshold
    /\ snoopers = <<>>
    /\ alerts = <<>>
    /\ alert_list = <<>>
    /\ map_center = None
    /\ alert_markers = <<>>
    /\ pc = "capture"

\* extract_device_detections appends the detection of the next row.
Sight ==
    /\ pc = "capture"
    /\ Len(Flatten(device_detections, 1)) < MaxSightings
    /\ \E d \in Sightings({<<"a">>}, MainFixes, MainTimes) :
          /\ \A i \in 1..Len(Flatten(device_detections, 1)) :
                TimeKey(Flatten(device_detections, 1)[i]) <= TimeKey(d)
          /\ device_detections' = DictAppend(device_detections, d.mac, d)
    /\ UNCHANGED <<san_in, san_out, devices, movement_threshold, snoopers, alerts,
                   alert_list, map_center, alert_markers, pc>>

\* The capture adds one row to table alerts.
RaiseAlert ==
    /\ pc = "capture"
    /\ Len(alerts) < MaxAlerts
    /\ \E row \in MainAlertRows : alerts' = Append(alerts, row)
    /\ UNCHANGED <<san_in, san_out, devices, device_detections, movement_threshold,
                   snoopers, alert_list, map_center, alert_markers, pc>>

\* main(): visualize_devices_snoopers_and_alerts(device_detections, snoopers,
\* alerts, ...) up to the save of the map
Visualize ==
    /\ pc = "alerts_extracted"
    /\ LET device_data == DeviceData(device_detections)
           found == MappedSnoopers(snoopers)
           all == AllLocations(device_data, found, alert_list)
       IN  IF /\ device_detections = <<>> /\ snoopers = <<>> /\ alert_list = <<>>
           THEN pc' = "nothing_to_display" /\ UNCHANGED <<map_center, alert_markers>>
           ELSE IF device_data = <<>> /\ found = <<>> /\ alert_list = <<>>
           THEN pc' = "nothing_to_display" /\ UNCHANGED <<map_center, alert_markers>>
           ELSE IF SortRaises(all)
           THEN pc' = "TypeError" /\ UNCHANGED <<map_center, alert_markers>>
           ELSE /\ map_center' = Center(all)
                /\ alert_markers' = [k \in 1..Len(alert_list) |->
                       PlaceAlert(alert_list[k], device_data, Center(all))]
                /\ pc' = "map_saved"
    /\ UNCHANGED <<san_in, san_out, devices, device_detections, movement_threshold,
                   snoopers, alerts, alert_list>>

Next ==
    \/ Sight
    \/ RaiseAlert
    \/ DetectSnoopers
    \/ ExtractAlerts
    \/ Visualize

Spec == Init /\ [][Next]_vars


\* All sightings handed to the visualization, in dict order.
Seen == Flatten(device_detections, 1)

\* The sightings with a non-null timestamp at or before time t.
Preceding(t) ==
    {i \in 1..Len(Seen) : Seen[i].last_time # None /\ Seen[i].last_time[2] <= t}

\* The chronologically earliest sightings, a null timestamp counting as 0.
Earliest ==
    {i \in 1..Len(Seen) : \A j \in 1..Len(Seen) : TimeKey(Seen[i]) <= TimeKey(Seen[j])}

Unplaced(a) == ~PairIsAFix(a.lat, a.lon)

\* The marker sits next to sighting d: its coordinates plus 0.0005 degree.
NextTo(m, d) ==
    /\ m.lat = Num(d.lat + 5)
    /\ m.lon = Num(d.lon + 5)
    /\ m.reference = d

ValidAlerts == {j \in 1..Len(alert_list) : PairIsAFix(alert_list[j].lat, alert_list[j].lon)}

AlertKey(a) == IF a.time = None THEN 0 ELSE a.time[2]

\* What the map centre is: the location of the earliest item among the
\* sightings and the alerts with valid coordinates (a sighting first among
\* equals), the predefined location when there is none.
CentreIsEarliestLocation ==
    IF Seen = <<>> /\ ValidAlerts = {}
    THEN map_center = <<Num(-805690), Num(-300887)>>
    ELSE IF Seen # <<>> /\ (ValidAlerts = {} \/ \E i \in 1..Len(Seen) : TimeKey(Seen[i]) = 0)
    THEN \E i \in Earliest : map_center = <<Num(Seen[i].lat), Num(Seen[i].lon)>>
    ELSE \E j \in ValidAlerts :
            /\ \A h \in ValidAlerts : AlertKey(alert_list[j]) <= AlertKey(alert_list[h])
            /\ AlertKey(alert_list[j]) = 0 \/ Seen = <<>>
            /\ map_center = <<alert_list[j].lat, alert_list[j].lon>>

KeptAlertRows == SelectSeq(alerts, LAMBDA r : ~AlertSkipped(r))

\* C7 as stated: a raw alert whose location carries a pair that is valid
\* under the validity rule is placed at exactly that pair, with no offset,
\* whatever sightings are present.
C7_ValidAlertStaysPut ==
    pc = "map_saved" =>
        \A k \in 1..Len(KeptAlertRows) :
            LET row == KeptAlertRows[k]
            IN  (/\ row.json # None
                 /\ PairIsAFix(RawAlertLat(row.json[2]), RawAlertLon(row.json[2])))
                => /\ alert_markers[k].lat = RawAlertLat(row.json[2])
                   /\ alert_markers[k].lon = RawAlertLon(row.json[2])

\* C10: when the map is saved every alert has a marker, and every marker has
\* a latitude and a longitude that are numbers, not None.
C10_EveryMarkerHasLocation ==
    pc = "map_saved" =>
        /\ Len(alert_markers) = Len(alert_list)
        /\ \A k \in 1..Len(alert_markers) :
              /\ alert_markers[k].lat # None /\ alert_markers[k].lat[1] = "num"
              /\ alert_markers[k].lon # None /\ alert_markers[k].lon[1] = "num"

\* With no sighting at all, an alert without coordinates and without
\* timestamp has a marker, next to an alert that kept its own coordinates.
C10_Witness ==
    /\ pc = "map_saved"
    /\ Seen = <<>>
    /\ Len(alert_markers) = 2
    /\ \E k \in 1..Len(alert_list) :
          alert_list[k].lat = None /\ alert_list[k].lon = None /\ alert_list[k].time = None
    /\ ValidAlerts # {}

\* The same sightings with every missing timestamp replaced by time 1.
Stamped(detections) ==
    [i \in 1..Len(detections) |->
        [detections[i] EXCEPT !.last_time = IF @ = None THEN Num(1) ELSE @]]

StampedTracks(dd) ==
    [e \in 1..Len(dd) |-> [dd[e] EXCEPT !.detections = Stamped(@)]]

\* C11, alert location: when the visualization fails, an alert with valid
\* coordinates and a time is on the map, and the same run in which every
\* sighting has a timestamp fails as well: no failure is owed to a sighting
\* without timestamp.
C11_PlacementFailureNotFromSighting ==
    pc = "TypeError" =>
        /\ \E k \in 1..Len(alert_list) :
              /\ is_valid_lat_lon(alert_list[k].lat, alert_list[k].lon)
              /\ alert_list[k].time # None
        /\ SortRaises(AllLocations(DeviceData(StampedTracks(device_detections)),
                                   MappedSnoopers(StampedTracks(snoopers)),
                                   alert_list))

\* A map is saved with an alert placed next to a sighting while another
\* sighting has no timestamp.
C11_PlacementWitness ==
    /\ pc = "map_saved"
    /\ \E i \in 1..Len(Seen) : Seen[i].last_time = None
    /\ \E k \in 1..Len(alert_list) :
          /\ Unplaced(alert_list[k])
          /\ alert_list[k].time # None
          /\ alert_markers[k].lat # map_center[1]

\* C14 as stated: every alert that is relocated next to a reference sighting
\* (an alert without valid coordinates that has a time, when sightings
\* exist) ends at a pair that satisfies the validity rule: latitude in
\* [-90, 90], longitude in [-180, 180], not the pair (0, 0).
C14_RelocatedAlertIsValid ==
    pc = "map_saved" =>
        \A k \in 1..Len(alert_list) :
            (/\ Unplaced(alert_list[k])
             /\ alert_list[k].time # None
             /\ Seen # <<>>)
                => PairIsAFix(alert_markers[k].lat, alert_markers[k].lon)

====
